---- MODULE Spec2Model ----
(***************************************************************************)
(* Model of mclearn/active_learner.py: the pool-based active learning loop *)
(* active_learn.  Rows of the training pool are identified by 1..n; the    *)
(* feature row and the oracle label of original row r are both written r,  *)
(* so that the feature arrays and the label arrays can be compared row by  *)
(* row.  Index arrays hold Python's 0-based (possibly negative) integers.  *)
(* Spec is one call of active_learn.  SpecOrch is one call of              *)
(* run_active_learning_with_heuristic, the loop over the trials, with      *)
(* active_learn as its callee; there the rows are those of the whole       *)
(* data set and the labels are the class names.                            *)
(***************************************************************************)
EXTENDS Integers, Sequences, FiniteSets, TLC

\* Largest training pool explored.
MaxPool == 3
\* Largest number of heuristic calls explored in one run (the while loop of
\* active_learn is unbounded when the heuristic selects nothing).
MaxIter == 3
\* Longest index array a heuristic returns.
MaxSel == 2
\* Most rows of one class in the data set given to the experiment routine.
MaxClassRows == 2
\* Largest no_trials explored.
MaxTrials == 2
\* Largest full_sample_size explored.
MaxFull == 6
\* The number of classes of the experiment routine (Galaxy, Star, Quasar),
\* the divisor of sub_sample_size = full_sample_size // 3.
NClasses == 3

VARIABLES
    pc,                 \* position in active_learn
    error,              \* the exception that ended the run, or "none"
    training_pool,      \* argument: the original rows
    total_n,            \* argument
    initial_n,          \* argument
    random_n,           \* argument
    unlabelled_pool,    \* feature rows not yet queried
    unlabelled_oracle,  \* their labels
    X_train,            \* feature rows queried so far
    y_train,            \* their labels
    candidate_index,    \* indices into the unlabelled pool drawn last
    X_train_candidates, \* unlabelled_pool[candidate_index]
    y_train_candidates, \* unlabelled_oracle[candidate_index]
    best_index,         \* the heuristic's answer: indices into the candidates
    classifier,         \* what the classifier was last fitted on
    learning_curve,     \* accuracies appended so far
    heur_log,           \* history: one record per call of the heuristic
    fit_trial,          \* history: the trial (its offset i) of the last fit
    o_pc,               \* position in run_active_learning_with_heuristic
    orch_oracle,        \* its argument training_oracle; row j of its
                        \* training_pool is written j
    balanced_pool,      \* argument
    full_sample_size,   \* argument
    no_trials,          \* argument
    pickle_path,        \* argument: whether a path is given
    i,                  \* the loop variable, the offset of the trial
    training_sub_pool,  \* the rows of the trial
    training_sub_oracle,\* the labels given with them
    learning_curves,    \* the curves collected so far
    returned,           \* what the caller is returned
    pickled,            \* what is written to pickle_path
    trial_log           \* history: one record per call of active_learn

vars == <<pc, error, training_pool, total_n, initial_n, random_n,
          unlabelled_pool, unlabelled_oracle, X_train, y_train,
          candidate_index, X_train_candidates, y_train_candidates,
          best_index, classifier, learning_curve, heur_log, fit_trial,
          o_pc, orch_oracle, balanced_pool, full_sample_size, no_trials,
          pickle_path, i, training_sub_pool, training_sub_oracle,
          learning_curves, returned, pickled, trial_log>>

\* The state of run_active_learning_with_heuristic.
orch_vars == <<o_pc, orch_oracle, balanced_pool, full_sample_size, no_trials,
               pickle_path, i, training_sub_pool, training_sub_oracle,
               learning_curves, returned, pickled, trial_log>>

----------------------------------------------------------------------------
(* numpy *)

Range(s) == {s[j] : j \in DOMAIN s}

Min(a, b) == IF a < b THEN a ELSE b

\* A negative index counts from the end of an array of length n.
NormIdx(ix, n) == IF ix < 0 THEN ix + n ELSE ix

\* The indices numpy accepts for an array of length n.
ValidIdx(ix, n) == -n <= ix /\ ix < n

\* arr[idx] for an integer index array idx.
Take(arr, idx) == [j \in 1..Len(idx) |-> arr[NormIdx(idx[j], Len(arr)) + 1]]

\* arr[idx] raises IndexError.
TakeRaises(arr, idx) == \E j \in DOMAIN idx : ~ValidIdx(idx[j], Len(arr))

RECURSIVE DeleteFrom(_, _, _)
DeleteFrom(arr, gone, j) ==
    IF j > Len(arr) THEN <<>>
    ELSE (IF (j - 1) \in gone THEN <<>> ELSE <<arr[j]>>) \o DeleteFrom(arr, gone, j + 1)

\* np.delete(arr, idx): the rows whose position is not in idx, in order.
MutDeleteLastOnly(arr, idx) ==
    IF idx = <<>> THEN arr
    ELSE DeleteFrom(arr, {NormIdx(idx[Len(idx)], Len(arr))}, 1)

Delete(arr, idx) ==
    DeleteFrom(arr, {NormIdx(idx[j], Len(arr)) : j \in DOMAIN idx}, 1)

\* np.delete(arr, idx, axis=0) on a feature matrix: the same, row-wise.
MutDeleteRowsFirstOnly(arr, idx) ==
    IF idx = <<>> THEN arr ELSE DeleteFrom(arr, {NormIdx(idx[1], Len(arr))}, 1)

DeleteRows(arr, idx) == Delete(arr, idx)

\* The arrays of k pairwise distinct values of 0..n-1.
MutSeqsWithReplacement(n, k) == [1..k -> 0..(n - 1)]

InjectiveSeqs(n, k) ==
    {s \in [1..k -> 0..(n - 1)] : \A a, b \in 1..k : a # b => s[a] # s[b]}

\* np.random.choice(np.arange(0, n), k, replace=False): the outcomes, each
\* either a raised ValueError or an index array.  A sample larger than the
\* population and a negative size raise.  An empty population raises in
\* older numpy releases even for k = 0, and yields the empty array in
\* newer ones: both outcomes are kept.
MutChoiceClamped(n, k) ==
    IF k < 0
    THEN {[raised |-> TRUE, idx |-> <<>>]}
    ELSE {[raised |-> FALSE, idx |-> s] : s \in InjectiveSeqs(n, Min(k, n))}

Choice(n, k) ==
    IF k < 0 \/ k > n
    THEN {[raised |-> TRUE, idx |-> <<>>]}
    ELSE IF n = 0
         THEN {[raised |-> TRUE, idx |-> <<>>], [raised |-> FALSE, idx |-> <<>>]}
         ELSE {[raised |-> FALSE, idx |-> s] : s \in InjectiveSeqs(n, k)}

----------------------------------------------------------------------------
(* the pluggable components *)

\* The index arrays a heuristic may return for k candidates: any array of at
\* most MaxSel integers, valid or not (-1 and k are the nearest values on
\* either side of 0..k-1).
HeuristicResults(k) == UNION {[1..m -> (-1)..k] : m \in 0..MaxSel}

\* classifier.fit(X, y): a full retrain; the state of the classifier is the
\* data of its last fit.
MutFitWithoutNewest(X, y) ==
    [fitted |-> TRUE, X |-> SubSeq(X, 1, Len(X) - 1), y |-> SubSeq(y, 1, Len(y) - 1)]

Fit(X, y) == [fitted |-> TRUE, X |-> X, y |-> y]

Unfitted == [fitted |-> FALSE, X |-> <<>>, y |-> <<>>]

\* compute_accuracy(classifier, testing_pool, testing_oracle): a score that
\* is a function of the fitted classifier (the test pool is fixed).
compute_accuracy(clf) == <<clf.X, clf.y>>

----------------------------------------------------------------------------
(* active_learn *)

\* learning_curve.append(accuracy).
MutCurveKeepsLatest(curve, accuracy) == <<accuracy>>

AppendAccuracy(curve, accuracy) == Append(curve, accuracy)

\* The loop condition of the while statement.
MutLoopConditionInclusive(len, total) == len <= total

LoopCondition(len, total) == len < total

\* The size of the candidate batch of one iteration.
CandidateSize(rn, len) == Min(rn, len)

\* The rows appended to the labelled set by one iteration.
MutSelectedFirstOnly(cands, bi) ==
    IF bi = <<>> THEN <<>> ELSE Take(cands, <<bi[1]>>)

Selected(cands, bi) == Take(cands, bi)

\* The positions in the unlabelled pool of the rows the heuristic selected.
MutBestIndexUntranslated(ci, bi) == bi

BestIndexInUnlabelled(ci, bi) == Take(ci, bi)

\* Nothing is returned or written.
Nothing == [has |-> FALSE, value |-> <<>>]

\* active_learn is called on its own, not by the experiment routine.
NoCaller ==
    /\ o_pc = "none"
    /\ orch_oracle = <<>>
    /\ balanced_pool = FALSE
    /\ full_sample_size = 0
    /\ no_trials = 0
    /\ pickle_path = FALSE
    /\ i = 0
    /\ training_sub_pool = <<>>
    /\ training_sub_oracle = <<>>
    /\ learning_curves = <<>>
    /\ returned = Nothing
    /\ pickled = Nothing
    /\ trial_log = <<>>

Init ==
    /\ pc = "seed"
    /\ error = "none"
    /\ \E n \in 1..MaxPool : training_pool = [r \in 1..n |-> r]
    /\ total_n \in (-1)..(MaxPool + 1)
    /\ initial_n \in 0..(MaxPool + 1)
    /\ random_n \in (-1)..MaxPool
    /\ unlabelled_pool = training_pool
    /\ unlabelled_oracle = training_pool
    /\ X_train = <<>>
    /\ y_train = <<>>
    /\ candidate_index = <<>>
    /\ X_train_candidates = <<>>
    /\ y_train_candidates = <<>>
    /\ best_index = <<>>
    /\ classifier = Unfitted
    /\ learning_curve = <<>>
    /\ heur_log = <<>>
    /\ fit_trial = -1
    /\ NoCaller

\* What the history keeps of one call of the heuristic on k candidates:
\* the number of indices returned, whether numpy accepts them all, and
\* whether the answer is a non-empty set of indices of 0..k-1.
LogEntry(k, ret, raised) ==
    [k |-> k,
     len |-> Len(ret),
     raised |-> raised,
     accepted |-> ~raised /\ \A j \in DOMAIN ret : ValidIdx(ret[j], k),
     contract |-> /\ ~raised
                  /\ ret # <<>>
                  /\ \A j \in DOMAIN ret : 0 <= ret[j] /\ ret[j] < k
                  /\ \A a, b \in DOMAIN ret : a # b => ret[a] # ret[b]]

Raise(e) ==
    /\ pc' = "error"
    /\ error' = e

\* Lines 88-105: the seed draw, the transfer of the seed, the first fit and
\* the first learning-curve entry.  The seed's candidate_index and candidate
\* rows are locals of this step, assigned again before they are next read.
\* Line 91 raises IndexError when the label vector is longer than the feature
\* matrix and an index beyond the matrix is drawn.
Seed ==
    /\ pc = "seed"
    /\ \E c \in Choice(Len(unlabelled_oracle), initial_n) :
          IF c.raised \/ TakeRaises(unlabelled_pool, c.idx)
          THEN /\ Raise(IF c.raised THEN "ValueError" ELSE "IndexError")
               /\ UNCHANGED <<unlabelled_pool, unlabelled_oracle, X_train, y_train,
                              candidate_index, X_train_candidates,
                              y_train_candidates, classifier, learning_curve,
                              fit_trial>>
          ELSE /\ UNCHANGED <<candidate_index, X_train_candidates, y_train_candidates>>
               /\ fit_trial' = i
               /\ X_train' = X_train \o Take(unlabelled_pool, c.idx)
               /\ y_train' = y_train \o Take(unlabelled_oracle, c.idx)
               /\ unlabelled_pool' = DeleteRows(unlabelled_pool, c.idx)
               /\ unlabelled_oracle' = Delete(unlabelled_oracle, c.idx)
               /\ classifier' = Fit(X_train', y_train')
               /\ learning_curve' = AppendAccuracy(learning_curve, compute_accuracy(classifier'))
               /\ pc' = "loop"
               /\ UNCHANGED error
    /\ UNCHANGED <<training_pool, total_n, initial_n, random_n, best_index, heur_log>>
    /\ UNCHANGED orch_vars

\* Line 108, the loop is entered.
LoopEnter ==
    /\ pc = "loop"
    /\ LoopCondition(Len(y_train), total_n)
    /\ Len(heur_log) < MaxIter
    /\ pc' = "draw"
    /\ UNCHANGED <<error, training_pool, total_n, initial_n, random_n,
                   unlabelled_pool, unlabelled_oracle, X_train, y_train,
                   candidate_index, X_train_candidates, y_train_candidates,
                   best_index, classifier, learning_curve, heur_log, fit_trial>>
    /\ UNCHANGED orch_vars

\* Lines 108 and 144, the loop is left and the learning curve returned.
Return ==
    /\ pc = "loop"
    /\ ~LoopCondition(Len(y_train), total_n)
    /\ pc' = "done"
    /\ UNCHANGED <<error, training_pool, total_n, initial_n, random_n,
                   unlabelled_pool, unlabelled_oracle, X_train, y_train,
                   candidate_index, X_train_candidates, y_train_candidates,
                   best_index, classifier, learning_curve, heur_log, fit_trial>>
    /\ UNCHANGED orch_vars

\* Lines 111-116: the candidate batch.
Draw ==
    /\ pc = "draw"
    /\ \E c \in Choice(Len(unlabelled_oracle),
                       CandidateSize(random_n, Len(unlabelled_oracle))) :
          IF c.raised
          THEN /\ Raise("ValueError")
               /\ UNCHANGED <<candidate_index, X_train_candidates, y_train_candidates>>
          ELSE /\ candidate_index' = c.idx
               /\ X_train_candidates' = Take(unlabelled_pool, c.idx)
               /\ y_train_candidates' = Take(unlabelled_oracle, c.idx)
               /\ pc' = "heur"
               /\ UNCHANGED error
    /\ UNCHANGED <<training_pool, total_n, initial_n, random_n,
                   unlabelled_pool, unlabelled_oracle, X_train, y_train,
                   best_index, classifier, learning_curve, heur_log, fit_trial>>
    /\ UNCHANGED orch_vars

\* Lines 119-121: the heuristic answers.
Heuristic ==
    /\ pc = "heur"
    /\ \E bi \in HeuristicResults(Len(X_train_candidates)) :
          /\ best_index' = bi
          /\ heur_log' = Append(heur_log, LogEntry(Len(X_train_candidates), bi, FALSE))
    /\ pc' = "transfer"
    /\ UNCHANGED <<error, training_pool, total_n, initial_n, random_n,
                   unlabelled_pool, unlabelled_oracle, X_train, y_train,
                   candidate_index, X_train_candidates, y_train_candidates,
                   classifier, learning_curve, fit_trial>>
    /\ UNCHANGED orch_vars

\* Lines 119-121: the heuristic raises, and active_learn with it.
HeuristicRaises ==
    /\ pc = "heur"
    /\ heur_log' = Append(heur_log, LogEntry(Len(X_train_candidates), <<>>, TRUE))
    /\ Raise("HeuristicError")
    /\ UNCHANGED <<training_pool, total_n, initial_n, random_n,
                   unlabelled_pool, unlabelled_oracle, X_train, y_train,
                   candidate_index, X_train_candidates, y_train_candidates,
                   best_index, classifier, learning_curve, fit_trial>>
    /\ UNCHANGED orch_vars

\* Lines 124-130: the selected rows move to the labelled set.
Transfer ==
    /\ pc = "transfer"
    /\ IF TakeRaises(X_train_candidates, best_index)
       THEN /\ Raise("IndexError")
            /\ UNCHANGED <<unlabelled_pool, unlabelled_oracle, X_train, y_train>>
       ELSE /\ X_train' = X_train \o Selected(X_train_candidates, best_index)
            /\ y_train' = y_train \o Selected(y_train_candidates, best_index)
            /\ LET best_index_in_unlabelled ==
                       BestIndexInUnlabelled(candidate_index, best_index)
               IN /\ unlabelled_pool' = DeleteRows(unlabelled_pool, best_index_in_unlabelled)
                  /\ unlabelled_oracle' = Delete(unlabelled_oracle, best_index_in_unlabelled)
            /\ pc' = "refit"
            /\ UNCHANGED error
    /\ UNCHANGED <<training_pool, total_n, initial_n, random_n,
                   candidate_index, X_train_candidates, y_train_candidates,
                   best_index, classifier, learning_curve, heur_log, fit_trial>>
    /\ UNCHANGED orch_vars

\* Lines 133-135: refit and the next learning-curve entry.  The iteration
\* ends here: its locals (the candidate batch and the heuristic's answer) are
\* assigned again before they are next read, and the model forgets them.
Refit ==
    /\ pc = "refit"
    /\ classifier' = Fit(X_train, y_train)
    /\ learning_curve' = AppendAccuracy(learning_curve, compute_accuracy(classifier'))
    /\ pc' = "loop"
    /\ candidate_index' = <<>>
    /\ X_train_candidates' = <<>>
    /\ y_train_candidates' = <<>>
    /\ best_index' = <<>>
    /\ fit_trial' = i
    /\ UNCHANGED <<error, training_pool, total_n, initial_n, random_n,
                   unlabelled_pool, unlabelled_oracle, X_train, y_train, heur_log>>
    /\ UNCHANGED orch_vars

Next ==
    \/ Seed
    \/ LoopEnter
    \/ Return
    \/ Draw
    \/ Heuristic
    \/ HeuristicRaises
    \/ Transfer
    \/ Refit

Spec == Init /\ [][Next]_vars

----------------------------------------------------------------------------
(* run_active_learning_with_heuristic *)

Classes == <<"Galaxy", "Star", "Quasar">>

\* A data set of g galaxies, s stars and q quasars, the classes taking turns
\* (the experiment routine is given data with rows of every class).
RECURSIVE Dataset(_, _, _)
Dataset(g, s, q) ==
    IF g + s + q = 0 THEN <<>>
    ELSE (IF g > 0 THEN <<"Galaxy">> ELSE <<>>)
         \o (IF s > 0 THEN <<"Star">> ELSE <<>>)
         \o (IF q > 0 THEN <<"Quasar">> ELSE <<>>)
         \o Dataset(IF g > 0 THEN g - 1 ELSE 0,
                    IF s > 0 THEN s - 1 ELSE 0,
                    IF q > 0 THEN q - 1 ELSE 0)

\* The argument training_pool of the experiment routine: row j is written j.
OrchTrainingPool == [j \in 1..Len(orch_oracle) |-> j]

\* arr[a:b] for 0 <= a <= b: the slice stops at the end of the array.
PySlice(arr, a, b) == SubSeq(arr, a + 1, Min(b, Len(arr)))

\* training_pool[training_oracle == cls]
MaskedRows(cls) == SelectSeq(OrchTrainingPool, LAMBDA r : orch_oracle[r] = cls)

\* np.repeat(cls, n)
Repeat(cls, n) == [j \in 1..n |-> cls]

sub_sample_size == full_sample_size \div NClasses

MutIStepFullSample == full_sample_size

i_step == IF balanced_pool THEN sub_sample_size ELSE full_sample_size

i_max == i_step * no_trials

\* The labelled set active_learn starts from.
MutLabelledKept == [X |-> X_train, y |-> y_train]

EmptyLabelled == [X |-> <<>>, y |-> <<>>]

\* learning_curves.append(learning_curve)
CollectedCurves(curves, curve) == Append(curves, curve)

InitOrch ==
    /\ o_pc = "start"
    /\ \E g, s, q \in 1..MaxClassRows : orch_oracle = Dataset(g, s, q)
    /\ balanced_pool \in BOOLEAN
    /\ full_sample_size \in NClasses..MaxFull
    /\ no_trials \in 0..MaxTrials
    /\ pickle_path \in BOOLEAN
    /\ i = 0
    /\ training_sub_pool = <<>>
    /\ training_sub_oracle = <<>>
    /\ learning_curves = <<>>
    /\ returned = Nothing
    /\ pickled = Nothing
    /\ trial_log = <<>>
    /\ pc = "idle"
    /\ error = "none"
    /\ training_pool = <<>>
    /\ initial_n \in 0..1
    /\ total_n = initial_n
    /\ random_n = 1
    /\ unlabelled_pool = <<>>
    /\ unlabelled_oracle = <<>>
    /\ X_train = <<>>
    /\ y_train = <<>>
    /\ candidate_index = <<>>
    /\ X_train_candidates = <<>>
    /\ y_train_candidates = <<>>
    /\ best_index = <<>>
    /\ classifier = Unfitted
    /\ learning_curve = <<>>
    /\ heur_log = <<>>
    /\ fit_trial = -1

\* The state of active_learn, the callee.
callee_vars == <<pc, error, training_pool, unlabelled_pool, unlabelled_oracle,
                 X_train, y_train, candidate_index, X_train_candidates,
                 y_train_candidates, best_index, classifier, learning_curve,
                 heur_log, fit_trial>>

\* Lines 179-189: the loop over the trials starts.
OrchBegin ==
    /\ o_pc = "start"
    /\ learning_curves' = <<>>
    /\ i' = 0
    /\ o_pc' = "for"
    /\ UNCHANGED <<orch_oracle, balanced_pool, full_sample_size, no_trials,
                   pickle_path, training_sub_pool, training_sub_oracle,
                   returned, pickled, trial_log>>
    /\ UNCHANGED <<total_n, initial_n, random_n>>
    /\ UNCHANGED callee_vars

\* Line 189: i is the next value of np.arange(0, i_max, i_step).
ForNext ==
    /\ o_pc = "for"
    /\ i < i_max
    /\ o_pc' = "slice"
    /\ UNCHANGED <<orch_oracle, balanced_pool, full_sample_size, no_trials,
                   pickle_path, i, training_sub_pool, training_sub_oracle,
                   learning_curves, returned, pickled, trial_log>>
    /\ UNCHANGED <<total_n, initial_n, random_n>>
    /\ UNCHANGED callee_vars

\* Line 189: np.arange(0, i_max, i_step) is exhausted.
ForEnd ==
    /\ o_pc = "for"
    /\ ~(i < i_max)
    /\ o_pc' = "finish"
    /\ UNCHANGED <<orch_oracle, balanced_pool, full_sample_size, no_trials,
                   pickle_path, i, training_sub_pool, training_sub_oracle,
                   learning_curves, returned, pickled, trial_log>>
    /\ UNCHANGED <<total_n, initial_n, random_n>>
    /\ UNCHANGED callee_vars

\* Lines 190-205: the class-balanced sub-pool of the trial.
SliceBalanced ==
    /\ o_pc = "slice"
    /\ balanced_pool
    /\ LET training_galaxy == PySlice(MaskedRows("Galaxy"), i, i + sub_sample_size)
           training_star == PySlice(MaskedRows("Star"), i, i + sub_sample_size)
           training_quasar == PySlice(MaskedRows("Quasar"), i, i + sub_sample_size)
       IN /\ training_sub_pool' = training_galaxy \o training_star \o training_quasar
          /\ training_sub_oracle' = Repeat("Galaxy", sub_sample_size)
                                    \o Repeat("Star", sub_sample_size)
                                    \o Repeat("Quasar", sub_sample_size)
    /\ o_pc' = "call"
    /\ UNCHANGED <<orch_oracle, balanced_pool, full_sample_size, no_trials,
                   pickle_path, i, learning_curves, returned, pickled, trial_log>>
    /\ UNCHANGED <<total_n, initial_n, random_n>>
    /\ UNCHANGED callee_vars

\* Lines 206-208: the contiguous sub-pool of the trial.
SliceContiguous ==
    /\ o_pc = "slice"
    /\ ~balanced_pool
    /\ training_sub_pool' = PySlice(OrchTrainingPool, i, i + full_sample_size)
    /\ training_sub_oracle' = PySlice(orch_oracle, i, i + full_sample_size)
    /\ o_pc' = "call"
    /\ UNCHANGED <<orch_oracle, balanced_pool, full_sample_size, no_trials,
                   pickle_path, i, learning_curves, returned, pickled, trial_log>>
    /\ UNCHANGED <<total_n, initial_n, random_n>>
    /\ UNCHANGED callee_vars

\* Lines 211-216 and 77-85: active_learn is called with the sub-pool, the
\* caller's classifier and the caller's total_n, initial_n and random_n, and
\* sets up its pools and its learning curve.
CallActiveLearn ==
    /\ o_pc = "call"
    /\ o_pc' = "in_trial"
    /\ trial_log' = Append(trial_log,
            [offset |-> i, pool |-> training_sub_pool, oracle |-> training_sub_oracle])
    /\ pc' = "seed"
    /\ error' = "none"
    /\ training_pool' = training_sub_pool
    /\ unlabelled_pool' = training_sub_pool
    /\ unlabelled_oracle' = training_sub_oracle
    /\ X_train' = EmptyLabelled.X
    /\ y_train' = EmptyLabelled.y
    /\ learning_curve' = <<>>
    /\ heur_log' = <<>>
    /\ candidate_index' = <<>>
    /\ X_train_candidates' = <<>>
    /\ y_train_candidates' = <<>>
    /\ best_index' = <<>>
    /\ UNCHANGED <<classifier, fit_trial>>
    /\ UNCHANGED <<orch_oracle, balanced_pool, full_sample_size, no_trials,
                   pickle_path, i, training_sub_pool, training_sub_oracle,
                   learning_curves, returned, pickled>>
    /\ UNCHANGED <<total_n, initial_n, random_n>>

\* Line 218: active_learn has returned, its curve is collected and the loop
\* goes on to the next value of i.
CollectCurve ==
    /\ o_pc = "in_trial"
    /\ pc = "done"
    /\ learning_curves' = CollectedCurves(learning_curves, learning_curve)
    /\ i' = i + i_step
    /\ o_pc' = "for"
    /\ pc' = "idle"
    /\ UNCHANGED <<orch_oracle, balanced_pool, full_sample_size, no_trials,
                   pickle_path, training_sub_pool, training_sub_oracle,
                   returned, pickled, trial_log>>
    /\ UNCHANGED <<total_n, initial_n, random_n>>
    /\ UNCHANGED <<error, training_pool, unlabelled_pool, unlabelled_oracle,
                   X_train, y_train, candidate_index, X_train_candidates,
                   y_train_candidates, best_index, classifier, learning_curve,
                   heur_log, fit_trial>>

\* Line 211: active_learn has raised; nothing catches the exception, which
\* leaves the experiment routine: nothing is returned and nothing written.
TrialRaises ==
    /\ o_pc = "in_trial"
    /\ pc = "error"
    /\ o_pc' = "error"
    /\ UNCHANGED <<orch_oracle, balanced_pool, full_sample_size, no_trials,
                   pickle_path, i, training_sub_pool, training_sub_oracle,
                   learning_curves, returned, pickled, trial_log>>
    /\ UNCHANGED <<total_n, initial_n, random_n>>
    /\ UNCHANGED callee_vars

\* Lines 222-224: the curves are written to pickle_path (and None returned).
FinishPickle ==
    /\ o_pc = "finish"
    /\ pickle_path
    /\ pickled' = [has |-> TRUE, value |-> learning_curves]
    /\ o_pc' = "done"
    /\ UNCHANGED <<orch_oracle, balanced_pool, full_sample_size, no_trials,
                   pickle_path, i, training_sub_pool, training_sub_oracle,
                   learning_curves, returned, trial_log>>
    /\ UNCHANGED <<total_n, initial_n, random_n>>
    /\ UNCHANGED callee_vars

\* Lines 226-227: the curves are returned.
FinishReturn ==
    /\ o_pc = "finish"
    /\ ~pickle_path
    /\ returned' = [has |-> TRUE, value |-> learning_curves]
    /\ o_pc' = "done"
    /\ UNCHANGED <<orch_oracle, balanced_pool, full_sample_size, no_trials,
                   pickle_path, i, training_sub_pool, training_sub_oracle,
                   learning_curves, pickled, trial_log>>
    /\ UNCHANGED <<total_n, initial_n, random_n>>
    /\ UNCHANGED callee_vars

\* The experiment routine with trials that need no query iteration
\* (total_n = initial_n): of active_learn, the seed phase and the return.
NextOrch ==
    \/ OrchBegin
    \/ ForNext
    \/ ForEnd
    \/ SliceBalanced
    \/ SliceContiguous
    \/ CallActiveLearn
    \/ Seed
    \/ Return
    \/ CollectCurve
    \/ TrialRaises
    \/ FinishPickle
    \/ FinishReturn

SpecOrch == InitOrch /\ [][NextOrch]_vars

----------------------------------------------------------------------------
(* the properties *)

\* Every answer of the heuristic so far was a non-empty set of indices into
\* its candidate batch.
ContractOK == \A h \in DOMAIN heur_log : heur_log[h].contract

\* Every call of the heuristic so far selected exactly one candidate.
SingleSelection ==
    \A h \in DOMAIN heur_log : heur_log[h].len = 1 /\ heur_log[h].accepted

\* The largest index array the heuristic returned so far (0 before any call).
RECURSIVE MaxLen(_)
MaxLen(log) ==
    IF log = <<>> THEN 0
    ELSE LET m == MaxLen(Tail(log))
         IN IF Head(log).len > m THEN Head(log).len ELSE m

RECURSIVE SumLen(_)
SumLen(log) == IF log = <<>> THEN 0 ELSE Head(log).len + SumLen(Tail(log))

Occurrences(arr, r) == Cardinality({j \in DOMAIN arr : arr[j] = r})

Rows == Range(training_pool)

\* The unlabelled and the labelled arrays hold every original row once.
Partition(unl, lab) ==
    /\ Len(unl) + Len(lab) = Len(training_pool)
    /\ Range(unl) \cap Range(lab) = {}
    /\ \A r \in Rows : Occurrences(unl, r) + Occurrences(lab, r) = 1

\* C1: as long as the heuristic returns non-empty sets of valid candidate
\* indices, the unlabelled pool and the labelled set (features and labels
\* alike) partition the original training pool: their sizes add up to the
\* size of the pool, they are disjoint, and every original row is in exactly
\* one of them exactly once.
C1_PartitionInvariant ==
    ContractOK =>
        /\ Partition(unlabelled_pool, X_train)
        /\ Partition(unlabelled_oracle, y_train)

\* C1 witness: a run that seeded with at least one row, then moved two rows
\* at once in one iteration, and returned.
C1_Witness ==
    /\ pc = "done"
    /\ ContractOK
    /\ initial_n >= 1
    /\ heur_log # <<>>
    /\ MaxLen(heur_log) >= 2
    /\ Len(X_train) = Len(training_pool)

\* C2 (as claimed): no row of the original pool is in the labelled set more
\* than once; rows are only ever appended to the labelled set, so a row that
\* was transferred twice is there twice.
C2_NoRowTransferredTwice ==
    \A r \in Rows : Occurrences(X_train, r) <= 1

\* C3 (as claimed): with random_n <= 0, the candidate batch handed to the
\* heuristic is the entire remaining unlabelled pool.
C3_NonPositiveRandomNIsWholePool ==
    (pc = "heur" /\ random_n <= 0) =>
        /\ Len(X_train_candidates) = Len(unlabelled_pool)
        /\ Range(X_train_candidates) = Range(unlabelled_pool)

\* C4 (as claimed): with total_n and initial_n at most the size of the pool
\* and a heuristic that returns non-empty sets of valid candidate indices,
\* the run does not end in an exception (it returns the learning curve).
C4_RunReturnsCurve ==
    (/\ total_n <= Len(training_pool)
     /\ initial_n <= Len(training_pool)
     /\ ContractOK) => pc # "error"

\* C5 (as claimed): when the unlabelled pool is exhausted with fewer than
\* total_n rows labelled, the run fails: no iteration that was started on the
\* empty pool gets as far as refitting the classifier (after which it would
\* append one more learning-curve entry and loop again).
C5_ExhaustionIsTerminal ==
    ~(/\ pc = "refit"
      /\ unlabelled_pool = <<>>
      /\ X_train_candidates = <<>>
      /\ Len(y_train) < total_n)

\* C6 (as claimed): an empty answer of the heuristic, or one with an index
\* outside 0..k-1 for k candidates, aborts the run: the transfer is never
\* completed and the classifier is not refitted for that iteration.
C6_InvalidResultAborts ==
    (pc = "refit" /\ heur_log # <<>>) => heur_log[Len(heur_log)].contract

\* C7: with a heuristic that selects exactly one candidate per call,
\* random_n >= 1 and initial_n <= total_n <= size of the pool, the run does
\* not fail, and when it returns the learning curve has
\* total_n - initial_n + 1 entries, total_n rows are labelled and
\* (size of the pool - total_n) rows are unlabelled.
C7_SingleSelectionCurveLength ==
    (/\ SingleSelection
     /\ random_n >= 1
     /\ initial_n <= total_n
     /\ total_n <= Len(training_pool)) =>
        /\ pc # "error"
        /\ pc = "done" =>
              /\ Len(learning_curve) = total_n - initial_n + 1
              /\ Len(y_train) = total_n
              /\ Len(X_train) = total_n
              /\ Len(unlabelled_pool) = Len(training_pool) - total_n
              /\ Len(unlabelled_oracle) = Len(training_pool) - total_n

\* C7 witness: a returned run of at least two single-candidate iterations
\* after a non-empty seed.
C7_Witness ==
    /\ pc = "done"
    /\ SingleSelection
    /\ random_n >= 1
    /\ initial_n >= 1
    /\ total_n - initial_n >= 2
    /\ total_n <= Len(training_pool)

\* C8 (as claimed): when the run returns, the labels added over the
\* iterations number the indices the heuristic returned, and the labelled
\* count is at least total_n and exceeds it by at most (largest returned
\* index array - 1).
C8_OvershootBound ==
    pc = "done" =>
        /\ Len(y_train) = initial_n + SumLen(heur_log)
        /\ Len(y_train) >= total_n
        /\ Len(y_train) - total_n <= MaxLen(heur_log) - 1

\* C8 (amended): when the run returns, the labels added over the iterations
\* number the indices the heuristic returned and the labelled count is at
\* least total_n; if at least one iteration ran, it exceeds total_n by at
\* most (largest returned index array - 1), and otherwise it is initial_n.
C8_OvershootBoundAfterIteration ==
    pc = "done" =>
        /\ Len(y_train) = initial_n + SumLen(heur_log)
        /\ Len(y_train) >= total_n
        /\ heur_log # <<>> => Len(y_train) - total_n <= MaxLen(heur_log) - 1
        /\ heur_log = <<>> => Len(y_train) = initial_n

\* C8 witness: a returned run whose last iteration moved two rows and so
\* overshot total_n by one.
C8_Witness ==
    /\ pc = "done"
    /\ heur_log # <<>>
    /\ MaxLen(heur_log) = 2
    /\ Len(y_train) = total_n + 1

\* C9: with initial_n larger than the training pool the run fails in the
\* seed draw: the classifier is never fitted, no accuracy is computed, the
\* heuristic is never called and the learning curve stays empty.
C9_OversizedSeedFailsEagerly ==
    initial_n > Len(training_pool) =>
        /\ pc \in {"seed", "error"}
        /\ ~classifier.fitted
        /\ learning_curve = <<>>
        /\ heur_log = <<>>
        /\ X_train = <<>>
        /\ unlabelled_pool = training_pool

\* C9 witness: the seed draw of an oversized seed has raised.
C9_Witness ==
    /\ initial_n > Len(training_pool)
    /\ pc = "error"
    /\ error = "ValueError"

\* C10 (as claimed): with total_n <= 0 the run is refused before anything is
\* done: the pool is not seeded, the classifier is not fitted and no learning
\* curve is returned.
C10_NonPositiveTotalRefused ==
    total_n <= 0 =>
        /\ ~classifier.fitted
        /\ X_train = <<>>
        /\ pc # "done"

\* The iterations of the loop that ran to their end: one per call of the
\* heuristic, but for the call of an iteration still under way or aborted.
CompletedIterations ==
    Len(heur_log) -
        (IF \/ pc \in {"transfer", "refit"}
            \/ (pc = "error" /\ error \in {"IndexError", "HeuristicError"})
         THEN 1 ELSE 0)

\* C11: once the seed phase is done, the learning curve has exactly
\* 1 + (number of completed iterations) entries at every point of the run,
\* and a step either leaves the curve alone or appends one entry to it (in
\* the seed phase or at the end of an iteration), never changing or removing
\* an entry.
C11_CurveLengthAndAppendOnly ==
    /\ [](classifier.fitted => Len(learning_curve) = 1 + CompletedIterations)
    /\ [][\/ learning_curve' = learning_curve
          \/ /\ pc \in {"seed", "refit"}
             /\ Len(learning_curve') = Len(learning_curve) + 1
             /\ SubSeq(learning_curve', 1, Len(learning_curve)) = learning_curve]_vars

\* C11 witness: a returned run with a seed entry and two iteration entries.
C11_Witness ==
    /\ pc = "done"
    /\ Len(heur_log) = 2
    /\ Len(learning_curve) = 3

\* C17: the steps of an iteration follow one another in the order candidate
\* draw, heuristic call, transfer, refit with accuracy evaluation; whenever
\* the heuristic is called, and whenever the loop condition is tested or the
\* curve returned, the classifier's last fit is on exactly the labelled set
\* as it stands, and the newest learning-curve entry is the accuracy of that
\* classifier.
C17_StepOrderAndFreshFit ==
    /\ [](pc \in {"loop", "draw", "heur", "done"} =>
            /\ classifier = [fitted |-> TRUE, X |-> X_train, y |-> y_train]
            /\ learning_curve # <<>>
            /\ learning_curve[Len(learning_curve)] = <<X_train, y_train>>)
    /\ [][/\ pc = "loop" => pc' \in {"draw", "done"}
          /\ pc = "draw" => pc' \in {"heur", "error"}
          /\ pc = "heur" => pc' \in {"transfer", "error"}
          /\ pc = "transfer" => pc' \in {"refit", "error"}
          /\ pc = "refit" => pc' = "loop"
          /\ pc \in {"done", "error"} => pc' = pc]_vars

\* C17 witness: the heuristic is about to be called a second time, after an
\* iteration that labelled a row.
C17_Witness ==
    /\ pc = "heur"
    /\ Len(heur_log) = 1
    /\ Len(X_train) > initial_n
    /\ X_train_candidates # <<>>

\* The rows of the first array that are no longer in the second.
Removed(before, after) == Range(before) \ Range(after)

\* The rows appended to the first array to give the second.
Appended(before, after) ==
    {after[j] : j \in (Len(before) + 1)..Len(after)}

\* C18: a transfer removes from the unlabelled pool exactly the rows it
\* appends to the labelled set, which are the candidates the heuristic
\* selected (translated through candidate_index); every candidate that was
\* not selected and every row outside the candidate batch stays in the
\* unlabelled pool, in its order.
C18_TransferFrame ==
    [][(pc = "transfer" /\ pc' = "refit") =>
          LET sel == {X_train_candidates[NormIdx(best_index[j], Len(X_train_candidates)) + 1] :
                          j \in DOMAIN best_index}
          IN /\ Appended(X_train, X_train') = sel
             /\ Removed(unlabelled_pool, unlabelled_pool') = sel
             /\ SubSeq(X_train', 1, Len(X_train)) = X_train
             /\ unlabelled_pool' = SelectSeq(unlabelled_pool, LAMBDA r : r \notin sel)
             /\ Range(X_train_candidates) \ sel \subseteq Range(unlabelled_pool')]_vars

\* C18 witness: a transfer has moved the one selected row of a batch of two
\* and left in the pool the candidate that was not selected and a row that
\* was outside the batch.
C18_Witness ==
    /\ pc = "refit"
    /\ Len(best_index) = 1
    /\ Len(X_train_candidates) = 2
    /\ Len(unlabelled_pool) = 2
    /\ \E r \in Range(unlabelled_pool) : r \in Range(X_train_candidates)
    /\ \E r \in Range(unlabelled_pool) : r \notin Range(X_train_candidates)

\* C19: for random_n >= 1 the candidate batch handed to the heuristic holds
\* min(random_n, size of the unlabelled pool) pairwise distinct rows, all of
\* them in the unlabelled pool and none of them labelled.
C19_CandidateBatch ==
    (pc = "heur" /\ random_n >= 1) =>
        /\ Len(X_train_candidates) = Min(random_n, Len(unlabelled_pool))
        /\ Len(candidate_index) = Len(X_train_candidates)
        /\ \A a, b \in DOMAIN X_train_candidates :
              a # b => X_train_candidates[a] # X_train_candidates[b]
        /\ Range(X_train_candidates) \subseteq Range(unlabelled_pool)
        /\ Range(X_train_candidates) \cap Range(X_train) = {}

\* C19 witness: a batch of two candidates drawn from a pool from which a row
\* has already been labelled.
C19_Witness ==
    /\ pc = "heur"
    /\ random_n >= 2
    /\ Len(X_train_candidates) = 2
    /\ X_train # <<>>

\* C20: after the seed phase and after every iteration the labelled labels
\* are, position by position, the oracle labels of the labelled feature rows,
\* and the unlabelled oracle is, position by position, the labels of the
\* unlabelled feature rows (the label of original row r is written r).
C20_FeatureLabelAlignment ==
    /\ y_train = X_train
    /\ unlabelled_oracle = unlabelled_pool
    /\ y_train_candidates = X_train_candidates

\* C20 witness: a run that seeded and then moved two rows in one iteration,
\* with a row left in the pool.
C20_Witness ==
    /\ pc = "loop"
    /\ initial_n >= 1
    /\ heur_log # <<>>
    /\ Len(X_train) >= 2
    /\ unlabelled_pool # <<>>

\* The number of rows of a sub-pool whose true class is cls.
RowsOfClass(pool, cls) ==
    Cardinality({j \in DOMAIN pool : orch_oracle[pool[j]] = cls})

\* Some class has fewer rows left at offset i than a trial takes.
ClassPoolShort ==
    \E c \in DOMAIN Classes : Len(MaskedRows(Classes[c])) < i + sub_sample_size

\* C12 (as claimed): in class-balanced mode the sub-pool handed to every
\* trial holds exactly full_sample_size // 3 rows of each of the three
\* classes, and the sub-oracle is as long as the sub-pool and gives every
\* row its true class.
C12_BalancedSubPool ==
    (balanced_pool /\ o_pc \in {"call", "in_trial"}) =>
        /\ \A c \in DOMAIN Classes :
              RowsOfClass(training_sub_pool, Classes[c]) = full_sample_size \div NClasses
        /\ Len(training_sub_oracle) = Len(training_sub_pool)
        /\ \A j \in DOMAIN training_sub_pool :
              training_sub_oracle[j] = orch_oracle[training_sub_pool[j]]

\* C13 (as claimed): in class-balanced mode active_learn is never called for
\* a trial in which some class has fewer rows left than the per-class slice
\* size.
C13_ShortClassNeverPassedOn ==
    ~(balanced_pool /\ o_pc = "in_trial" /\ ClassPoolShort)

\* The size of a slice: of the whole slice, or of the slice of each class.
SliceSize ==
    IF balanced_pool THEN full_sample_size \div NClasses ELSE full_sample_size

\* The rows a trial at the given offset is to use: the contiguous slice of
\* the pool, or of each class of the pool, that starts at the offset.
SliceRows(offset) ==
    IF balanced_pool
    THEN {r \in DOMAIN orch_oracle :
            LET rank == Cardinality({q \in 1..r : orch_oracle[q] = orch_oracle[r]})
            IN offset < rank /\ rank <= offset + SliceSize}
    ELSE {r \in DOMAIN orch_oracle : offset < r /\ r <= offset + SliceSize}

\* C14: when the experiment routine ends normally it has run exactly
\* no_trials trials; trial t (from 0) used the contiguous slice at offset
\* t * slice_size, so the slices of two trials share no row; and the output
\* (returned, or written when a path is given) is the sequence of the
\* no_trials learning curves in trial order, each computed from rows of its
\* own trial.
C14_TrialsSlicesAndOutput ==
    o_pc = "done" =>
        /\ Len(trial_log) = no_trials
        /\ \A t \in DOMAIN trial_log :
              /\ trial_log[t].offset = (t - 1) * SliceSize
              /\ Range(trial_log[t].pool) = SliceRows((t - 1) * SliceSize)
              /\ Len(trial_log[t].pool) = Cardinality(SliceRows((t - 1) * SliceSize))
        /\ \A t, u \in DOMAIN trial_log :
              t # u => Range(trial_log[t].pool) \cap Range(trial_log[u].pool) = {}
        /\ Len(learning_curves) = no_trials
        /\ \A t \in DOMAIN learning_curves :
              /\ Len(learning_curves[t]) = 1
              /\ Range(learning_curves[t][1][1]) \subseteq Range(trial_log[t].pool)
              /\ Len(learning_curves[t][1][1]) = initial_n
        /\ IF pickle_path
           THEN pickled = [has |-> TRUE, value |-> learning_curves] /\ ~returned.has
           ELSE returned = [has |-> TRUE, value |-> learning_curves] /\ ~pickled.has

\* C14 witness: two class-balanced trials, each seeded with a row, have run
\* and their curves are returned.
C14_Witness ==
    /\ o_pc = "done"
    /\ balanced_pool
    /\ no_trials = 2
    /\ initial_n = 1
    /\ returned.has
    /\ Len(returned.value) = 2

\* C15 (as claimed): when a trial is aborted by an error, the learning
\* curves of the trials before it are returned to the caller or written to
\* pickle_path.
C15_PriorCurvesSurvive ==
    (o_pc = "error" /\ learning_curves # <<>>) =>
        \/ returned = [has |-> TRUE, value |-> learning_curves]
        \/ pickled = [has |-> TRUE, value |-> learning_curves]

====
